---- MODULE Spec2Model ----
(***************************************************************************)
(* Camera transform engine of src/camera-matrix-tool.tsx.                  *)
(*                                                                         *)
(* State: the React states `cameraState` and `selectedPresets` of          *)
(* CameraMatrixTool, the queue                                             *)
(* of zero-delay timers (setTimeout(f, 0)) the handlers leave behind, and   *)
(* `ops`, the number of commands the user has issued.                      *)
(* Two history variables serve the properties: `last`, the step taken      *)
(* last with its arguments (for a checkbox the id and the selection it     *)
(* was ticked in, for Combine and Clear the selection and the movement     *)
(* matrix they found, for Reset the step before it), and `resetTrail`,     *)
(* the states in which consecutive                                         *)
(* uninterrupted runs of the Reset command ended.                          *)
(*                                                                         *)
(* Closures.  Every handler is a closure of one render: the identifier     *)
(* `cameraState` inside it is the state of that render, whereas the        *)
(* argument `prev` of a setCameraState updater is the state at the time    *)
(* the update is applied.  React re-renders after each event, so a handler *)
(* that starts runs against the current state; a timer callback keeps the  *)
(* state of the render in which its handler ran.  Each operation below     *)
(* therefore takes both `prev` and `closure`.                              *)
(*                                                                         *)
(* Numbers.  Lengths (position, boundaries, the translation column of a   *)
(* matrix) are counted in hundredths: 1.0 is 100, 0.5 is 50.  Angles are   *)
(* counted in quarter turns: 1 is pi/2.  With these, every matrix the      *)
(* model reaches has integer entries and the arithmetic is exact.          *)
(* Indices are 1-based here and 0-based in the source.                     *)
(*                                                                         *)
(* Fractions.  The rotation and complex presets have entries that are not  *)
(* whole numbers (0.9998, 0.045).  A matrix with such entries is held as   *)
(* a whole multiple of itself: all sixteen cells times one factor, which   *)
(* is then what cell [4][4] holds (that cell is 1 in every matrix the      *)
(* program builds, and the model never types into it).  0.9998 over the    *)
(* factor 5000 is 4999.  The product of two multiples is the multiple of   *)
(* the product by the product of the factors, so Multiply needs no change  *)
(* and stays exact.  Every matrix of `transformMatrix` has the factor 1.   *)
(***************************************************************************)
EXTENDS Integers, Sequences, FiniteSets, TLC

VARIABLES cameraState, selectedPresets, timers, ops, last, resetTrail, numberInput

vars == <<cameraState, selectedPresets, timers, ops, last, resetTrail, numberInput>>

(***************************************************************************)
(* Bounds of the model.                                                    *)
(***************************************************************************)
\* At most this many zero-delay timers are pending at once.
MaxTimers == 2

\* The user issues at most this many commands; timers and frames run freely.
MaxOps == 5

\* The values typed into the fields, as <<index, value>> or <<row, col, value>>.
PositionInputs == {<<1, 300>>}
RotationInputs == {<<2, 1>>}
TransformInputs == {<<1, 4, 500>>}
MovementInputs == {<<1, 4, 400>>}

\* The edge, the axis and the value typed into a boundary field.
BoundaryInputs == {<<"max", 3, 400>>}

\* The boundary fields typed into in the editing of a running animation.
EdgeInputs == {<<"min", 2, 300>>, <<"max", 3, 400>>, <<"max", 1, 200>>}

\* The texts typed into the field of the upper z edge, character by
\* character: numbers, a number with a tail, and texts without a number.
Texts ==
    { << >>,
      <<"a", "b", "c">>,
      <<"-">>,
      <<".">>,
      <<"4", ".", "5">>,
      <<"4", "a">>,
      <<" ", "7">>,
      <<"-", "3">>,
      <<"3", ".", "2", "5">>,
      <<".", "5">> }

\* The checkboxes the user ticks.
PresetInputs == {"yaw-left", "yaw-right"}

\* The ids togglePreset is called with in the movement builder taken alone:
\* six checkboxes, and roll-left, an id the catalog does not have.
ComposerInputs ==
    {"forward", "backward", "up", "yaw-left", "pitch-up", "spiral-up", "roll-left"}

\* The largest factor of a composed matrix: with factors of 5000, 5000 and
\* 1000 together the cells would no longer fit 32-bit integers.
MaxScale == 25000000

(***************************************************************************)
(* Matrix algebra: the calls into THREE.Matrix4 / THREE.Euler.             *)
(***************************************************************************)
Idx == 1..4
Axes == 1..3

IDENTITY_MATRIX ==
    << <<1, 0, 0, 0>>,
       <<0, 1, 0, 0>>,
       <<0, 0, 1, 0>>,
       <<0, 0, 0, 1>> >>

\* a.multiply(b): a := a x b.
Multiply(a, b) ==
    [i \in Idx |-> [j \in Idx |->
        a[i][1] * b[1][j] + a[i][2] * b[2][j] + a[i][3] * b[3][j] + a[i][4] * b[4][j]]]

\* Math.cos and Math.sin of k quarter turns.
Cos(k) == CASE k % 4 = 0 -> 1 [] k % 4 = 1 -> 0 [] k % 4 = 2 -> -1 [] OTHER -> 0
Sin(k) == CASE k % 4 = 0 -> 0 [] k % 4 = 1 -> 1 [] k % 4 = 2 -> 0 [] OTHER -> -1

\* Matrix4.makeRotationFromEuler(euler), order 'XYZ'.
MakeRotationFromEuler(euler) ==
    LET a == Cos(euler[1])  b == Sin(euler[1])
        c == Cos(euler[2])  d == Sin(euler[2])
        e == Cos(euler[3])  f == Sin(euler[3])
        ae == a * e  af == a * f  be == b * e  bf == b * f
    IN << <<c * e,       -(c * f),      d,        0>>,
          <<af + be * d, ae - bf * d,   -(b * c), 0>>,
          <<bf - ae * d, be + af * d,   a * c,    0>>,
          <<0,           0,             0,        1>> >>

\* Matrix4.setPosition(v): the translation column, rows 0..2 of column 3.
SetPosition(m, v) ==
    [i \in Idx |-> [j \in Idx |-> IF j = 4 /\ i \in Axes THEN v[i] ELSE m[i][j]]]

\* The translation Matrix4.decompose writes into `position`.
Translation(m) == <<m[1][4], m[2][4], m[3][4]>>

\* matrix.makeRotationFromEuler(rotation); matrix.setPosition(position);
\* matrix.toArray() read back row by row.
Compose(position, rotation) == SetPosition(MakeRotationFromEuler(rotation), position)

(***************************************************************************)
(* Init: the useState initialiser of CameraMatrixTool.                     *)
(***************************************************************************)
InitialCameraState ==
    [ position        |-> <<100, 200, 600>>,
      rotation        |-> <<0, 0, 0>>,
      transformMatrix |-> << <<1, 0, 0, 100>>,
                             <<0, 1, 0, 200>>,
                             <<0, 0, 1, 600>>,
                             <<0, 0, 0, 1>> >>,
      movementMatrix  |-> << <<1, 0, 0, 0>>,
                             <<0, 1, 0, 0>>,
                             <<0, 0, 1, 0>>,
                             <<0, 0, 0, 1>> >>,
      initialPosition |-> <<100, 200, 600>>,
      initialRotation |-> <<0, 0, 0>>,
      isAnimating     |-> FALSE,
      boundaries      |-> [min |-> <<-800, 50, -800>>, max |-> <<800, 600, 800>>] ]

\* MOVEMENT_PRESETS: id, category, conflictsWith and matrix of each entry, in
\* the order of the source (spiral-up declares no conflictsWith).  A
\* translation of 0.02 is 2 hundredths.  The rotation presets are held over
\* the factor 5000 (0.9998 = 4999/5000, 0.02 = 100/5000) and spiral-up over
\* 1000 (0.999 = 999/1000, 0.045 = 45/1000, 0.01 = 1 hundredth = 1000/1000).
MOVEMENT_PRESETS ==
    << [id |-> "forward",    category |-> "translation", conflictsWith |-> {"backward"},
        matrix |-> << <<1, 0, 0, 0>>, <<0, 1, 0, 0>>, <<0, 0, 1, -2>>, <<0, 0, 0, 1>> >>],
       [id |-> "backward",   category |-> "translation", conflictsWith |-> {"forward"},
        matrix |-> << <<1, 0, 0, 0>>, <<0, 1, 0, 0>>, <<0, 0, 1, 2>>, <<0, 0, 0, 1>> >>],
       [id |-> "left",       category |-> "translation", conflictsWith |-> {"right"},
        matrix |-> << <<1, 0, 0, -2>>, <<0, 1, 0, 0>>, <<0, 0, 1, 0>>, <<0, 0, 0, 1>> >>],
       [id |-> "right",      category |-> "translation", conflictsWith |-> {"left"},
        matrix |-> << <<1, 0, 0, 2>>, <<0, 1, 0, 0>>, <<0, 0, 1, 0>>, <<0, 0, 0, 1>> >>],
       [id |-> "up",         category |-> "translation", conflictsWith |-> {"down"},
        matrix |-> << <<1, 0, 0, 0>>, <<0, 1, 0, 2>>, <<0, 0, 1, 0>>, <<0, 0, 0, 1>> >>],
       [id |-> "down",       category |-> "translation", conflictsWith |-> {"up"},
        matrix |-> << <<1, 0, 0, 0>>, <<0, 1, 0, -2>>, <<0, 0, 1, 0>>, <<0, 0, 0, 1>> >>],
       [id |-> "yaw-left",   category |-> "rotation",    conflictsWith |-> {"yaw-right"},
        matrix |-> << <<4999, 0, 100, 0>>, <<0, 5000, 0, 0>>,
                      <<-100, 0, 4999, 0>>, <<0, 0, 0, 5000>> >>],
       [id |-> "yaw-right",  category |-> "rotation",    conflictsWith |-> {"yaw-left"},
        matrix |-> << <<4999, 0, -100, 0>>, <<0, 5000, 0, 0>>,
                      <<100, 0, 4999, 0>>, <<0, 0, 0, 5000>> >>],
       [id |-> "pitch-up",   category |-> "rotation",    conflictsWith |-> {"pitch-down"},
        matrix |-> << <<5000, 0, 0, 0>>, <<0, 4999, -100, 0>>,
                      <<0, 100, 4999, 0>>, <<0, 0, 0, 5000>> >>],
       [id |-> "pitch-down", category |-> "rotation",    conflictsWith |-> {"pitch-up"},
        matrix |-> << <<5000, 0, 0, 0>>, <<0, 4999, 100, 0>>,
                      <<0, -100, 4999, 0>>, <<0, 0, 0, 5000>> >>],
       [id |-> "spiral-up",  category |-> "complex",     conflictsWith |-> {},
        matrix |-> << <<999, 0, 45, 0>>, <<0, 1000, 0, 1000>>,
                      <<-45, 0, 999, -1000>>, <<0, 0, 0, 1000>> >>] >>

(***************************************************************************)
(* NumberInput: the text field of one number, here the field of the upper *)
(* z edge of the boundaries (precision 1).  `localValue` is the text shown,*)
(* `isFocused` the state the component keeps, `active` whether the element *)
(* holds the keyboard focus of the page.                                   *)
(***************************************************************************)
Digits == <<"0", "1", "2", "3", "4", "5", "6", "7", "8", "9">>

IsDigit(c) == \E d \in DOMAIN Digits : Digits[d] = c

DigitValue(c) == (CHOOSE d \in DOMAIN Digits : Digits[d] = c) - 1

\* The result of Number.parseFloat on a text without a number; a number n
\* comes out of it as <<n>>.
NaN == << >>

\* Number.isNaN.
IsNaN(parsed) == parsed = NaN

\* The decimal digits of a natural number.
RECURSIVE DigitsOf(_)
DigitsOf(n) ==
    IF n < 10 THEN <<Digits[n + 1]>>
    ELSE Append(DigitsOf(n \div 10), Digits[(n % 10) + 1])

\* The last `width` decimal digits of a natural number, zeros in front.
RECURSIVE PaddedDigitsOf(_, _)
PaddedDigitsOf(n, width) ==
    IF width = 0 THEN << >>
    ELSE Append(PaddedDigitsOf(n \div 10, width - 1), Digits[(n % 10) + 1])

RECURSIVE PowerOfTen(_)
PowerOfTen(k) == IF k = 0 THEN 1 ELSE 10 * PowerOfTen(k - 1)

\* Number.prototype.toFixed for a number of hundredths and a precision of at
\* most 2: the sign, then the magnitude rounded to the precision, half up.
ToFixed(value, precision) ==
    LET x == IF value < 0 THEN -value ELSE value
        unit == PowerOfTen(2 - precision)
        n == (x + unit \div 2) \div unit
        whole == DigitsOf(n \div PowerOfTen(precision))
        fraction == PaddedDigitsOf(n % PowerOfTen(precision), precision)
    IN (IF value < 0 THEN <<"-">> ELSE << >>)
         \o whole
         \o (IF precision = 0 THEN << >> ELSE <<".">> \o fraction)

\* The text without its leading blanks.
RECURSIVE TrimStart(_)
TrimStart(text) ==
    IF text # << >> /\ Head(text) = " " THEN TrimStart(Tail(text)) ELSE text

\* The number of digits a text starts with.
RECURSIVE DigitRun(_)
DigitRun(text) ==
    IF text # << >> /\ IsDigit(Head(text)) THEN 1 + DigitRun(Tail(text)) ELSE 0

\* The natural number a run of digits writes.
RECURSIVE NumberOf(_)
NumberOf(digits) ==
    IF digits = << >> THEN 0
    ELSE 10 * NumberOf(SubSeq(digits, 1, Len(digits) - 1)) + DigitValue(digits[Len(digits)])

\* Number.parseFloat, in hundredths, as NaN or <<number>>: blanks, a sign,
\* digits, a point and digits; whatever follows is ignored, and a text with
\* no digit in that place gives NaN.  (Texts carry at most two digits after
\* the point.)
ParseFloat(text) ==
    LET trimmed == TrimStart(text)
        signed == trimmed # << >> /\ Head(trimmed) \in {"-", "+"}
        negative == trimmed # << >> /\ Head(trimmed) = "-"
        unsigned == IF signed THEN Tail(trimmed) ELSE trimmed
        n == DigitRun(unsigned)
        rest == SubSeq(unsigned, n + 1, Len(unsigned))
        pointed == rest # << >> /\ Head(rest) = "."
        f == IF pointed THEN DigitRun(Tail(rest)) ELSE 0
        fraction == IF pointed THEN SubSeq(Tail(rest), 1, f) ELSE << >>
        hundredths == NumberOf(SubSeq(fraction \o <<"0", "0">>, 1, 2))
        magnitude == 100 * NumberOf(SubSeq(unsigned, 1, n)) + hundredths
    IN IF n = 0 /\ f = 0 THEN NaN
       ELSE IF negative THEN <<-magnitude>> ELSE <<magnitude>>

\* The value prop of the field.
ValueOf(state) == state.boundaries.max[3]

\* useState of NumberInput for a value.
InitialNumberInput(value) ==
    [localValue |-> ToFixed(value, 1), isFocused |-> FALSE, active |-> FALSE]

\* The effect of NumberInput after a render: when value or isFocused has
\* changed and the field is not focused, the text becomes the value's.
useEffect(old, oldValue, input, value) ==
    IF (value # oldValue \/ input.isFocused # old.isFocused) /\ ~input.isFocused
    THEN [input EXCEPT !.localValue = ToFixed(value, 1)]
    ELSE input

\* handleBlur writing zero where the text has no number.
handleBlurCommittingZero(input, value) ==
    LET numValue == ParseFloat(input.localValue)
    IN [input |-> [input EXCEPT !.isFocused = FALSE],
        onChange |-> IF ~IsNaN(numValue) THEN numValue ELSE <<0>>]

\* handleBlur: the component's state after it and the calls of onChange it
\* makes.
handleBlur(input, value) ==
    LET numValue == ParseFloat(input.localValue)
    IN IF ~IsNaN(numValue)
       THEN [input |-> [input EXCEPT !.isFocused = FALSE],
             onChange |-> numValue]
       ELSE [input |-> [input EXCEPT !.isFocused = FALSE,
                                     !.localValue = ToFixed(value, 1)],
             onChange |-> << >>]

Init ==
    /\ cameraState = InitialCameraState
    /\ selectedPresets = << >>
    /\ timers = << >>
    /\ ops = 0
    /\ last = [op |-> "init", arg |-> << >>]
    /\ resetTrail = << >>
    /\ numberInput = InitialNumberInput(ValueOf(cameraState))

(***************************************************************************)
(* Decomposition as the frame callback does it.                            *)
(***************************************************************************)
\* Math.asin of -1, 0 or 1, and Math.atan2 on the axes, in quarter turns.
\* A half turn is written 2: pi and -pi are the same angle.
Asin(v) == v
Atan2(y, x) ==
    CASE y = 0 /\ x > 0 -> 0
      [] y > 0 /\ x = 0 -> 1
      [] y = 0 /\ x < 0 -> 2
      [] y < 0 /\ x = 0 -> -1
      [] OTHER -> 0

\* Euler.setFromRotationMatrix(m, 'XYZ').
SetFromRotationMatrix(m) ==
    LET m13 == m[1][3]
    IN IF m13 = 0
       THEN <<Atan2(-m[2][3], m[3][3]), Asin(m13), Atan2(-m[1][2], m[1][1])>>
       ELSE <<Atan2(m[3][2], m[2][2]), Asin(m13), 0>>

\* The matrices whose decomposition is exact here: the upper-left block is
\* a rotation by quarter turns (orthonormal columns, determinant 1) and the
\* bottom row is 0 0 0 1, so that scale is (1, 1, 1).
Determinant3(m) ==
      m[1][1] * (m[2][2] * m[3][3] - m[2][3] * m[3][2])
    - m[1][2] * (m[2][1] * m[3][3] - m[2][3] * m[3][1])
    + m[1][3] * (m[2][1] * m[3][2] - m[2][2] * m[3][1])

IsRotation(m) ==
    /\ \A i, j \in Axes :
          m[1][i] * m[1][j] + m[2][i] * m[2][j] + m[3][i] * m[3][j]
              = (IF i = j THEN 1 ELSE 0)
    /\ Determinant3(m) = 1
    /\ m[4] = <<0, 0, 0, 1>>

\* currentMatrix.decompose(position, quaternion, scale) followed by
\* new THREE.Euler().setFromQuaternion(quaternion).
EulerOf(m) == SetFromRotationMatrix(m)

\* shouldReset with the two tests of an axis joined by && : never true.
ShouldResetConjoined(position, boundaries) ==
    \/ position[1] < boundaries.min[1] /\ position[1] > boundaries.max[1]
    \/ position[2] < boundaries.min[2] /\ position[2] > boundaries.max[2]
    \/ position[3] < boundaries.min[3] /\ position[3] > boundaries.max[3]

\* shouldReset with the edges of the box counted as outside.
ShouldResetInclusive(position, boundaries) ==
    \/ position[1] <= boundaries.min[1]
    \/ position[1] >= boundaries.max[1]
    \/ position[2] <= boundaries.min[2]
    \/ position[2] >= boundaries.max[2]
    \/ position[3] <= boundaries.min[3]
    \/ position[3] >= boundaries.max[3]

\* shouldReset with the upper edges of the box counted as outside.
ShouldResetAtUpperEdge(position, boundaries) ==
    \/ position[1] < boundaries.min[1]
    \/ position[1] >= boundaries.max[1]
    \/ position[2] < boundaries.min[2]
    \/ position[2] >= boundaries.max[2]
    \/ position[3] < boundaries.min[3]
    \/ position[3] >= boundaries.max[3]

\* shouldReset testing the height alone.
ShouldResetVertical(position, boundaries) ==
    \/ position[2] < boundaries.min[2]
    \/ position[2] > boundaries.max[2]

\* shouldReset of the frame callback.
ShouldReset(position, boundaries) ==
    \/ position[1] < boundaries.min[1]
    \/ position[1] > boundaries.max[1]
    \/ position[2] < boundaries.min[2]
    \/ position[2] > boundaries.max[2]
    \/ position[3] < boundaries.min[3]
    \/ position[3] > boundaries.max[3]

(***************************************************************************)
(* The handlers, as functions of the state an update is applied to (prev)  *)
(* and the state their closure was rendered with (closure).                *)
(***************************************************************************)
\* onChange of a position field: newPos is a copy of the closure's position.
PositionOnChange(prev, closure, i, newVal) ==
    [prev EXCEPT !.position = [closure.position EXCEPT ![i] = newVal]]

\* onChange of a rotation field.
RotationOnChange(prev, closure, i, newVal) ==
    [prev EXCEPT !.rotation = [closure.rotation EXCEPT ![i] = newVal]]

\* onChange of a cell of the transform matrix.
TransformOnChange(prev, closure, i, j, newVal) ==
    [prev EXCEPT !.transformMatrix = [closure.transformMatrix EXCEPT ![i][j] = newVal]]

\* An edit of the movement matrix taken only while the animation is off.
MovementOnChangeWhenIdle(prev, closure, i, j, newVal) ==
    IF prev.isAnimating THEN prev
    ELSE [prev EXCEPT !.movementMatrix =
             [closure.movementMatrix EXCEPT ![i][j] = newVal * closure.movementMatrix[4][4]]]

\* onChange of a cell of the movement matrix (the value goes in over the
\* factor of the matrix).
MovementOnChange(prev, closure, i, j, newVal) ==
    [prev EXCEPT !.movementMatrix =
        [closure.movementMatrix EXCEPT ![i][j] = newVal * closure.movementMatrix[4][4]]]

\* onChange of a boundary field: the closure's min or max with one component
\* replaced goes into the boundaries of the state.
BoundaryOnChange(prev, closure, edge, i, newVal) ==
    IF edge = "min"
    THEN LET newMin == [closure.boundaries.min EXCEPT ![i] = newVal]
         IN [prev EXCEPT !.boundaries = [prev.boundaries EXCEPT !.min = newMin]]
    ELSE LET newMax == [closure.boundaries.max EXCEPT ![i] = newVal]
         IN [prev EXCEPT !.boundaries = [prev.boundaries EXCEPT !.max = newMax]]

\* updateFromPositionRotation: the matrix is composed from the closure's
\* position and rotation.
updateFromPositionRotation(prev, closure) ==
    [prev EXCEPT !.transformMatrix = Compose(closure.position, closure.rotation)]

\* updateFromMatrix: position is the translation of the closure's matrix.
\* decompose fills a temporary quaternion made from `rotation`; the Euler
\* `rotation` itself stays as constructed, (0, 0, 0).
updateFromMatrix(prev, closure) ==
    [prev EXCEPT !.position = Translation(closure.transformMatrix),
                 !.rotation = <<0, 0, 0>>]

\* resetCamera flipping the animation flag instead of clearing it.
resetCameraToggling(prev) ==
    [prev EXCEPT !.position = prev.initialPosition,
                 !.rotation = prev.initialRotation,
                 !.isAnimating = ~prev.isAnimating]

\* resetCamera, the part that runs in the click.
resetCamera(prev) ==
    [prev EXCEPT !.position = prev.initialPosition,
                 !.rotation = prev.initialRotation,
                 !.isAnimating = FALSE]

\* The deferred part composing from the pose instead of the initial pose.
resetCameraDeferredFromPose(prev, closure) ==
    [prev EXCEPT !.transformMatrix = Compose(closure.position, closure.rotation)]

\* resetCamera, the part inside setTimeout.
resetCameraDeferred(prev, closure) ==
    [prev EXCEPT !.transformMatrix =
                     Compose(closure.initialPosition, closure.initialRotation)]

\* Set Initial storing the position without the rotation.
setInitialPositionOnly(prev) ==
    [prev EXCEPT !.initialPosition = prev.position]

setInitialPosition(prev) ==
    [prev EXCEPT !.initialPosition = prev.position,
                 !.initialRotation = prev.rotation]

toggleAnimation(prev) ==
    [prev EXCEPT !.isAnimating = ~prev.isAnimating]

\* MOVEMENT_PRESETS.find((p) => p.id === presetId): whether it finds an entry,
\* and the entry.
HasPreset(presetId) ==
    \E k \in DOMAIN MOVEMENT_PRESETS : MOVEMENT_PRESETS[k].id = presetId

FindPreset(presetId) ==
    MOVEMENT_PRESETS[CHOOSE k \in DOMAIN MOVEMENT_PRESETS :
                         MOVEMENT_PRESETS[k].id = presetId]

Includes(list, x) == \E k \in DOMAIN list : list[k] = x

\* togglePreset selecting an id the catalog does not have.
togglePresetAddingUnknown(prev, presetId) ==
    IF ~HasPreset(presetId) THEN Append(prev, presetId)
    ELSE LET preset == FindPreset(presetId)
             isOther(id) == id # presetId
             noConflict(id) == id \notin preset.conflictsWith
         IN IF Includes(prev, presetId)
            THEN SelectSeq(prev, isOther)
            ELSE Append(SelectSeq(prev, noConflict), presetId)

\* togglePreset adding without removing the conflicts.
togglePresetKeepingConflicts(prev, presetId) ==
    LET isOther(id) == id # presetId
    IN IF ~HasPreset(presetId) THEN prev
       ELSE IF Includes(prev, presetId)
            THEN SelectSeq(prev, isOther)
            ELSE Append(prev, presetId)

\* togglePreset dropping the whole selection when it adds.
togglePresetReplacing(prev, presetId) ==
    LET isOther(id) == id # presetId
    IN IF ~HasPreset(presetId) THEN prev
       ELSE IF Includes(prev, presetId)
            THEN SelectSeq(prev, isOther)
            ELSE <<presetId>>

\* togglePreset: the updater given to setSelectedPresets (array.filter is
\* SelectSeq).
togglePreset(prev, presetId) ==
    LET preset == FindPreset(presetId)
        isOther(id) == id # presetId
        noConflict(id) == id \notin preset.conflictsWith
    IN IF ~HasPreset(presetId) THEN prev
       ELSE IF Includes(prev, presetId)
            THEN SelectSeq(prev, isOther)
            ELSE Append(SelectSeq(prev, noConflict), presetId)

\* order[a.category] of the comparator given to sort.
Order(category) ==
    CASE category = "translation" -> 0
      [] category = "rotation" -> 1
      [] category = "complex" -> 2

\* The comparator with its operands exchanged.
CompareCategoryReversed(a, b) == Order(b.category) - Order(a.category)

\* The comparator: order[a.category] - order[b.category].
CompareCategory(a, b) == Order(a.category) - Order(b.category)

\* Array.prototype.sort with that comparator.  The sort is stable: an entry
\* goes behind every entry already placed that does not compare greater.
InsertSorted(sorted, p) ==
    LET notGreater(e) == CompareCategory(e, p) <= 0
        k == Len(SelectSeq(sorted, notGreater))
    IN SubSeq(sorted, 1, k) \o <<p>> \o SubSeq(sorted, k + 1, Len(sorted))

\* The selection left in the order it was ticked.
SortSkipped(list) == list

RECURSIVE Sort(_)
Sort(list) ==
    IF list = << >> THEN << >>
    ELSE InsertSorted(Sort(SubSeq(list, 1, Len(list) - 1)), list[Len(list)])

\* selectedPresets.map((id) => MOVEMENT_PRESETS.find(...)).filter(Boolean).
SelectedPresetObjects(selected) ==
    LET found == SelectSeq(selected, HasPreset)
    IN [k \in DOMAIN found |-> FindPreset(found[k])]

\* forEach with combinedMatrix.premultiply(presetMatrix).
RECURSIVE ForEachPremultiply(_, _)
ForEachPremultiply(combinedMatrix, sortedPresets) ==
    IF sortedPresets = << >> THEN combinedMatrix
    ELSE ForEachPremultiply(Multiply(Head(sortedPresets).matrix, combinedMatrix),
                            Tail(sortedPresets))

\* forEach with combinedMatrix.copy(presetMatrix).
ForEachCopy(combinedMatrix, sortedPresets) ==
    IF sortedPresets = << >> THEN combinedMatrix
    ELSE sortedPresets[Len(sortedPresets)].matrix

\* sortedPresets.forEach: combinedMatrix.multiply(presetMatrix), from the
\* first entry to the last.
RECURSIVE ForEachMultiply(_, _)
ForEachMultiply(combinedMatrix, sortedPresets) ==
    IF sortedPresets = << >> THEN combinedMatrix
    ELSE ForEachMultiply(Multiply(combinedMatrix, Head(sortedPresets).matrix),
                         Tail(sortedPresets))

\* combineSelectedPresets returning early on an empty selection without
\* writing the identity.
combineSelectedPresetsKeepingEmpty(prev, selected) ==
    IF Len(selected) = 0
    THEN prev
    ELSE [prev EXCEPT !.movementMatrix =
              ForEachMultiply(IDENTITY_MATRIX, Sort(SelectedPresetObjects(selected)))]

\* combineSelectedPresets; `selected` is the selectedPresets of its render.
combineSelectedPresets(prev, selected) ==
    IF Len(selected) = 0
    THEN [prev EXCEPT !.movementMatrix = << <<1, 0, 0, 0>>,
                                            <<0, 1, 0, 0>>,
                                            <<0, 0, 1, 0>>,
                                            <<0, 0, 0, 1>> >>]
    ELSE [prev EXCEPT !.movementMatrix =
              ForEachMultiply(IDENTITY_MATRIX, Sort(SelectedPresetObjects(selected)))]

\* clearSelection leaving the movement matrix as it is.
clearSelectionKeepingMatrix(prev) == prev

\* clearSelection, the update of cameraState.
clearSelection(prev) ==
    [prev EXCEPT !.movementMatrix = << <<1, 0, 0, 0>>,
                                       <<0, 1, 0, 0>>,
                                       <<0, 0, 1, 0>>,
                                       <<0, 0, 0, 1>> >>]

(***************************************************************************)
(* MatrixCalculationDisplay: the result matrix the panel shows.            *)
(***************************************************************************)
\* The comparator of the panel's sort.
DisplayCompare(a, b) ==
    LET order == [translation |-> 0, rotation |-> 1, complex |-> 2]
    IN order[a.category] - order[b.category]

\* selectedPresetObjects.sort of the panel (stable).
RECURSIVE DisplaySort(_)
DisplaySort(list) ==
    IF list = << >> THEN << >>
    ELSE LET p == list[Len(list)]
             sorted == DisplaySort(SubSeq(list, 1, Len(list) - 1))
             k == Cardinality({n \in DOMAIN sorted : DisplayCompare(sorted[n], p) <= 0})
         IN SubSeq(sorted, 1, k) \o <<p>> \o SubSeq(sorted, k + 1, Len(sorted))

\* Matrix4.toArray(): the sixteen cells column by column.
ToArray(m) == [k \in 1..16 |-> m[((k - 1) % 4) + 1][((k - 1) \div 4) + 1]]

\* The rows read back out of the array: cells 0 4 8 12, 1 5 9 13, ...
RowsOfArray(array) ==
    << <<array[1], array[5], array[9], array[13]>>,
       <<array[2], array[6], array[10], array[14]>>,
       <<array[3], array[7], array[11], array[15]>>,
       <<array[4], array[8], array[12], array[16]>> >>

\* currentMatrix after sortedPresets.forEach(currentMatrix.multiply).
RECURSIVE DisplayCurrentMatrix(_, _)
DisplayCurrentMatrix(sortedPresets, n) ==
    IF n = 0 THEN IDENTITY_MATRIX
    ELSE Multiply(DisplayCurrentMatrix(sortedPresets, n - 1), sortedPresets[n].matrix)

\* resultMatrix of the panel; nothing is shown for the empty selection.
MatrixCalculationDisplay(selected) ==
    IF Len(selected) = 0 THEN << >>
    ELSE LET known == SelectSeq(selected, HasPreset)
             selectedPresetObjects == [k \in DOMAIN known |-> FindPreset(known[k])]
             sortedPresets == DisplaySort(selectedPresetObjects)
         IN RowsOfArray(ToArray(DisplayCurrentMatrix(sortedPresets, Len(sortedPresets))))

\* The candidate with the movement multiplied from the left.
FrameMatrixPremultiplied(closure) ==
    Multiply(closure.movementMatrix, closure.transformMatrix)

\* The candidate without the movement: the camera stands still.
FrameMatrixStill(closure) == closure.transformMatrix

\* The candidate of a frame: currentMatrix.multiply(movementMatrix).
FrameMatrix(closure) == Multiply(closure.transformMatrix, closure.movementMatrix)

\* Which branch the frame callback takes.
FrameBranch(closure) ==
    IF ~closure.isAnimating THEN "idle"
    ELSE IF ShouldReset(Translation(FrameMatrix(closure)), closure.boundaries)
         THEN "reset"
         ELSE "commit"

\* The frame callback committing the matrix without position and rotation.
useFrameMatrixOnly(prev, closure) ==
    IF closure.isAnimating
    THEN LET currentMatrix == FrameMatrix(closure)
             position == Translation(currentMatrix)
         IN IF ShouldReset(position, closure.boundaries)
            THEN [prev EXCEPT !.position = prev.initialPosition,
                              !.rotation = prev.initialRotation]
            ELSE [prev EXCEPT !.transformMatrix = currentMatrix]
    ELSE prev

\* The frame callback using its movement matrix up as it commits.
useFrameConsumingMovement(prev, closure) ==
    IF closure.isAnimating
    THEN LET currentMatrix == FrameMatrix(closure)
             position == Translation(currentMatrix)
         IN IF ShouldReset(position, closure.boundaries)
            THEN [prev EXCEPT !.position = prev.initialPosition,
                              !.rotation = prev.initialRotation]
            ELSE [prev EXCEPT !.position = position,
                              !.rotation = EulerOf(currentMatrix),
                              !.transformMatrix = currentMatrix,
                              !.movementMatrix = IDENTITY_MATRIX]
    ELSE prev

\* The frame callback stopping the animation as it resets.
useFrameStoppingOnReset(prev, closure) ==
    IF closure.isAnimating
    THEN LET currentMatrix == FrameMatrix(closure)
             position == Translation(currentMatrix)
         IN IF ShouldReset(position, closure.boundaries)
            THEN [prev EXCEPT !.position = prev.initialPosition,
                              !.rotation = prev.initialRotation,
                              !.isAnimating = FALSE]
            ELSE [prev EXCEPT !.position = position,
                              !.rotation = EulerOf(currentMatrix),
                              !.transformMatrix = currentMatrix]
    ELSE prev

\* The frame callback running whether or not the animation is switched on.
useFrameAlways(prev, closure) ==
    LET currentMatrix == FrameMatrix(closure)
        position == Translation(currentMatrix)
    IN IF ShouldReset(position, closure.boundaries)
       THEN [prev EXCEPT !.position = prev.initialPosition,
                         !.rotation = prev.initialRotation]
       ELSE [prev EXCEPT !.position = position,
                         !.rotation = EulerOf(currentMatrix),
                         !.transformMatrix = currentMatrix]

\* The useFrame callback of MainCameraView.
useFrame(prev, closure) ==
    IF closure.isAnimating
    THEN LET currentMatrix == FrameMatrix(closure)
             position == Translation(currentMatrix)
         IN IF ShouldReset(position, closure.boundaries)
            THEN [prev EXCEPT !.position = prev.initialPosition,
                              !.rotation = prev.initialRotation]
            ELSE [prev EXCEPT !.position = position,
                              !.rotation = EulerOf(currentMatrix),
                              !.transformMatrix = currentMatrix]
    ELSE prev

(***************************************************************************)
(* Actions.                                                                *)
(***************************************************************************)
Timer(kind, closure) == [kind |-> kind, closure |-> closure]

Step(op, arg) == last' = [op |-> op, arg |-> arg]

\* A command of the user, counted against MaxOps.
Command == ops < MaxOps /\ ops' = ops + 1

\* The position and rotation fields and the cells of the transform matrix
\* are disabled while animating.
SetPositionComponent ==
    /\ UNCHANGED selectedPresets
    /\ Command
    /\ ~cameraState.isAnimating
    /\ Len(timers) < MaxTimers
    /\ \E in \in PositionInputs :
          /\ cameraState' = PositionOnChange(cameraState, cameraState, in[1], in[2])
          /\ Step("setPositionComponent", in)
    /\ timers' = Append(timers, Timer("updateFromPositionRotation", cameraState))
    /\ resetTrail' = << >>
    /\ UNCHANGED numberInput

SetRotationComponent ==
    /\ UNCHANGED selectedPresets
    /\ Command
    /\ ~cameraState.isAnimating
    /\ Len(timers) < MaxTimers
    /\ \E in \in RotationInputs :
          /\ cameraState' = RotationOnChange(cameraState, cameraState, in[1], in[2])
          /\ Step("setRotationComponent", in)
    /\ timers' = Append(timers, Timer("updateFromPositionRotation", cameraState))
    /\ resetTrail' = << >>
    /\ UNCHANGED numberInput

SetMatrixCell ==
    /\ UNCHANGED selectedPresets
    /\ Command
    /\ ~cameraState.isAnimating
    /\ Len(timers) < MaxTimers
    /\ \E in \in TransformInputs :
          /\ cameraState' = TransformOnChange(cameraState, cameraState, in[1], in[2], in[3])
          /\ Step("setMatrixCell", in)
    /\ timers' = Append(timers, Timer("updateFromMatrix", cameraState))
    /\ resetTrail' = << >>
    /\ UNCHANGED numberInput

\* A cell is typed into a movement matrix of whole numbers.
SetMovementMatrixCell ==
    /\ UNCHANGED selectedPresets
    /\ Command
    /\ cameraState.movementMatrix[4][4] = 1
    /\ \E in \in MovementInputs :
          /\ cameraState' = MovementOnChange(cameraState, cameraState, in[1], in[2], in[3])
          /\ Step("setMovementMatrixCell", in)
    /\ UNCHANGED timers
    /\ resetTrail' = << >>
    /\ UNCHANGED numberInput

\* A value is typed into a boundary field.
SetBoundary ==
    /\ UNCHANGED selectedPresets
    /\ Command
    /\ \E in \in BoundaryInputs :
          /\ cameraState' = BoundaryOnChange(cameraState, cameraState, in[1], in[2], in[3])
          /\ Step("setBoundary", in)
    /\ UNCHANGED timers
    /\ resetTrail' = << >>
    /\ numberInput' = useEffect(numberInput, ValueOf(cameraState),
                                numberInput, ValueOf(cameraState'))

\* A value is typed into a boundary field, lower edges included.
SetAnyBoundary ==
    /\ UNCHANGED selectedPresets
    /\ Command
    /\ \E in \in EdgeInputs :
          /\ cameraState' = BoundaryOnChange(cameraState, cameraState, in[1], in[2], in[3])
          /\ Step("setBoundary", in)
    /\ UNCHANGED timers
    /\ resetTrail' = << >>
    /\ numberInput' = useEffect(numberInput, ValueOf(cameraState),
                                numberInput, ValueOf(cameraState'))

TogglePreset ==
    /\ Command
    /\ \E in \in PresetInputs :
          /\ selectedPresets' = togglePreset(selectedPresets, in)
          /\ Step("togglePreset", <<in, selectedPresets>>)
    /\ UNCHANGED <<cameraState, timers>>
    /\ resetTrail' = << >>
    /\ UNCHANGED numberInput

\* Any checkbox of the catalog.
ToggleAnyPreset ==
    /\ Command
    /\ \E k \in DOMAIN MOVEMENT_PRESETS :
          /\ selectedPresets' = togglePreset(selectedPresets, MOVEMENT_PRESETS[k].id)
          /\ Step("togglePreset", <<MOVEMENT_PRESETS[k].id, selectedPresets>>)
    /\ UNCHANGED <<cameraState, timers>>
    /\ resetTrail' = << >>
    /\ UNCHANGED numberInput

\* togglePreset called in the movement builder taken alone.
ToggleComposerPreset ==
    /\ Command
    /\ \E in \in ComposerInputs :
          /\ selectedPresets' = togglePreset(selectedPresets, in)
          /\ Step("togglePreset", <<in, selectedPresets>>)
    /\ UNCHANGED <<cameraState, timers>>
    /\ resetTrail' = << >>
    /\ UNCHANGED numberInput

\* The factor the composed matrix of a selection is held over, the product
\* of the factors of its presets, is at most `limit`.
RECURSIVE ScaleWithin(_, _)
ScaleWithin(presets, limit) ==
    IF presets = << >> THEN TRUE
    ELSE LET factor == Head(presets).matrix[4][4]
         IN /\ factor <= limit
            /\ ScaleWithin(Tail(presets), limit \div factor)

\* The Combine button, for the selections whose composed matrix stays
\* within MaxScale.
CombineSelectedPresets ==
    /\ Command
    /\ ScaleWithin(SelectedPresetObjects(selectedPresets), MaxScale)
    /\ cameraState' = combineSelectedPresets(cameraState, selectedPresets)
    /\ UNCHANGED <<selectedPresets, timers>>
    /\ Step("combineSelectedPresets", <<selectedPresets, cameraState.movementMatrix>>)
    /\ resetTrail' = << >>
    /\ UNCHANGED numberInput

\* The Clear button.
ClearSelection ==
    /\ Command
    /\ selectedPresets' = << >>
    /\ cameraState' = clearSelection(cameraState)
    /\ UNCHANGED timers
    /\ Step("clearSelection", <<selectedPresets, cameraState.movementMatrix>>)
    /\ resetTrail' = << >>
    /\ UNCHANGED numberInput

UpdateFromPositionRotation ==
    /\ UNCHANGED selectedPresets
    /\ UNCHANGED ops
    /\ timers # << >>
    /\ Head(timers).kind = "updateFromPositionRotation"
    /\ cameraState' = updateFromPositionRotation(cameraState, Head(timers).closure)
    /\ timers' = Tail(timers)
    /\ Step("updateFromPositionRotation", << >>)
    /\ resetTrail' = << >>
    /\ UNCHANGED numberInput

UpdateFromMatrix ==
    /\ UNCHANGED selectedPresets
    /\ UNCHANGED ops
    /\ timers # << >>
    /\ Head(timers).kind = "updateFromMatrix"
    /\ cameraState' = updateFromMatrix(cameraState, Head(timers).closure)
    /\ timers' = Tail(timers)
    /\ Step("updateFromMatrix", << >>)
    /\ resetTrail' = << >>
    /\ UNCHANGED numberInput

\* The Reset button.  The trail goes on when the click comes straight after
\* a completed run and nothing is pending.
ResetCamera ==
    /\ UNCHANGED selectedPresets
    /\ Command
    /\ Len(timers) < MaxTimers
    /\ cameraState' = resetCamera(cameraState)
    /\ timers' = Append(timers, Timer("resetCamera", cameraState))
    /\ Step("resetCamera", <<last.op>>)
    /\ resetTrail' = IF last.op = "resetCameraDeferred" /\ timers = << >>
                     THEN resetTrail ELSE << >>
    /\ UNCHANGED numberInput

ResetCameraDeferred ==
    /\ UNCHANGED selectedPresets
    /\ UNCHANGED ops
    /\ timers # << >>
    /\ Head(timers).kind = "resetCamera"
    /\ cameraState' = resetCameraDeferred(cameraState, Head(timers).closure)
    /\ timers' = Tail(timers)
    /\ Step("resetCameraDeferred", << >>)
    /\ resetTrail' = IF last.op = "resetCamera" /\ Len(timers) = 1
                     THEN <<cameraState'>>
                          \o (IF resetTrail = << >> THEN << >> ELSE <<resetTrail[1]>>)
                     ELSE << >>
    /\ UNCHANGED numberInput

SetInitialPosition ==
    /\ UNCHANGED selectedPresets
    /\ Command
    /\ cameraState' = setInitialPosition(cameraState)
    /\ UNCHANGED timers
    /\ Step("setInitialPosition", << >>)
    /\ resetTrail' = << >>
    /\ UNCHANGED numberInput

ToggleAnimation ==
    /\ UNCHANGED selectedPresets
    /\ Command
    /\ cameraState' = toggleAnimation(cameraState)
    /\ UNCHANGED timers
    /\ Step("toggleAnimation", << >>)
    /\ resetTrail' = << >>
    /\ UNCHANGED numberInput

\* One rendering frame.  A frame is taken while animating only where the
\* candidate is a matrix of whole numbers, and a frame that commits only
\* where the decomposition of its candidate is exact.
Frame ==
    /\ UNCHANGED selectedPresets
    /\ UNCHANGED ops
    /\ cameraState.isAnimating => cameraState.movementMatrix[4][4] = 1
    /\ FrameBranch(cameraState) = "commit" => IsRotation(FrameMatrix(cameraState))
    /\ cameraState' = useFrame(cameraState, cameraState)
    /\ UNCHANGED timers
    /\ Step("useFrame", <<FrameBranch(cameraState)>>)
    /\ resetTrail' = << >>
    /\ UNCHANGED numberInput

\* The field of the upper z edge takes the keyboard focus.
FocusInput ==
    /\ ~numberInput.active
    /\ numberInput' = [numberInput EXCEPT !.isFocused = TRUE, !.active = TRUE]
    /\ Step("onFocus", << >>)
    /\ UNCHANGED <<cameraState, selectedPresets, timers, ops, resetTrail>>

\* A text is typed into the field.
ChangeInput ==
    /\ numberInput.active
    /\ \E text \in Texts :
          /\ numberInput' = [numberInput EXCEPT !.localValue = text]
          /\ Step("handleChange", <<text>>)
    /\ UNCHANGED <<cameraState, selectedPresets, timers, ops, resetTrail>>

\* handleBlur run on the state, with the render and the effect after it.
Commit(op, active) ==
    LET result == handleBlur(numberInput, ValueOf(cameraState))
    IN /\ cameraState' =
             IF result.onChange = << >> THEN cameraState
             ELSE BoundaryOnChange(cameraState, cameraState, "max", 3, result.onChange[1])
       /\ numberInput' = [useEffect(numberInput, ValueOf(cameraState),
                                    result.input, ValueOf(cameraState'))
                             EXCEPT !.active = active]
       /\ Step(op, <<numberInput.localValue, result.onChange>>)
       /\ UNCHANGED <<selectedPresets, timers, ops, resetTrail>>

\* The field loses the keyboard focus.
BlurInput ==
    /\ numberInput.active
    /\ Commit("onBlur", FALSE)

\* Enter is pressed in the field.
KeyDownEnter ==
    /\ numberInput.active
    /\ Commit("onKeyDown", TRUE)

Next ==
    \/ SetPositionComponent
    \/ SetRotationComponent
    \/ SetMatrixCell
    \/ SetMovementMatrixCell
    \/ SetBoundary
    \/ TogglePreset
    \/ CombineSelectedPresets
    \/ ClearSelection
    \/ UpdateFromPositionRotation
    \/ UpdateFromMatrix
    \/ ResetCamera
    \/ ResetCameraDeferred
    \/ SetInitialPosition
    \/ ToggleAnimation
    \/ Frame

Spec == Init /\ [][Next]_vars

(***************************************************************************)
(* The movement builder alone: its checkboxes, Combine, Clear and the     *)
(* cells of the movement matrix.                                           *)
(***************************************************************************)
ComposerNext ==
    \/ ToggleComposerPreset
    \/ CombineSelectedPresets
    \/ ClearSelection
    \/ SetMovementMatrixCell

ComposerSpec == Init /\ [][ComposerNext]_vars

(***************************************************************************)
(* The selection alone: every checkbox of the catalog, and Clear.          *)
(***************************************************************************)
SelectionNext ==
    \/ ToggleAnyPreset
    \/ ClearSelection

SelectionSpec == Init /\ [][SelectionNext]_vars

(***************************************************************************)
(* The animation stepper alone, started in the states a session reaches    *)
(* once the camera has been placed, a preset combined and the boundaries   *)
(* typed in.                                                               *)
(***************************************************************************)
\* The session-default box, and one whose floor lies below the origin.
StepBoundaries ==
    { InitialCameraState.boundaries,
      [min |-> <<-800, -50, -800>>, max |-> <<800, 600, 800>>],
      [min |-> <<-800, 50, -800>>, max |-> <<800, 0, 800>>],
      [min |-> <<-800, 50, 600>>, max |-> <<800, 600, 600>>] }

\* The camera at the origin or in its default place: <<position, matrix>>.
StepPlacements ==
    { <<Translation(m), m>> : m \in {IDENTITY_MATRIX, InitialCameraState.transformMatrix} }

StepPresets == {"forward", "up"}

StepInit ==
    /\ \E b \in StepBoundaries, pm \in StepPlacements, id \in StepPresets :
          /\ cameraState = [InitialCameraState EXCEPT
                                !.position = pm[1],
                                !.transformMatrix = pm[2],
                                !.movementMatrix = FindPreset(id).matrix,
                                !.boundaries = b]
          /\ selectedPresets = <<id>>
    /\ timers = << >>
    /\ ops = 0
    /\ last = [op |-> "init", arg |-> << >>]
    /\ resetTrail = << >>
    /\ numberInput = InitialNumberInput(ValueOf(cameraState))

StepNext ==
    \/ ToggleAnimation
    \/ Frame

StepSpec == StepInit /\ [][StepNext]_vars

\* The render loop calls the frame callback on every animation frame, for as
\* long as the view is mounted.
StepFairSpec == StepSpec /\ WF_vars(Frame)

(***************************************************************************)
(* The fields that stay open while the animation runs: the cells of the   *)
(* movement matrix and the boundaries, with the switch and the frames.     *)
(***************************************************************************)
EditNext ==
    \/ SetMovementMatrixCell
    \/ SetAnyBoundary
    \/ ToggleAnimation
    \/ Frame

EditSpec == Init /\ [][EditNext]_vars

(***************************************************************************)
(* One NumberInput: focus, typing, Enter and blur.                         *)
(***************************************************************************)
InputNext ==
    \/ FocusInput
    \/ ChangeInput
    \/ BlurInput
    \/ KeyDownEnter

InputSpec == Init /\ [][InputNext]_vars

(***************************************************************************)
(* Properties.                                                             *)
(***************************************************************************)
\* A position lies outside the box on some axis.
Outside(p, boundaries) ==
    \E i \in Axes : p[i] < boundaries.min[i] \/ p[i] > boundaries.max[i]

\* The upper-left 3x3 block.
RotationBlock(m) == [i \in Axes |-> [j \in Axes |-> m[i][j]]]

\* The matrix agrees with a pose: same translation, same rotation block.
Agrees(m, position, rotation) ==
    /\ Translation(m) = position
    /\ RotationBlock(m) = RotationBlock(MakeRotationFromEuler(rotation))

\* A command's own timer runs next, with nothing between the two.
Completes(command, timer) ==
    /\ last.op = command
    /\ last'.op = timer
    /\ Len(timers) = 1

\* C1: whenever no timer is pending, the translation column of the transform
\* matrix is the position and its rotation block is the rotation matrix of
\* the rotation.
C1_Synchronized ==
    timers = << >> =>
        Agrees(cameraState.transformMatrix, cameraState.position, cameraState.rotation)

\* C2: when an edit of a position or rotation field has run together with
\* its timer, the transform matrix is composed from the updated position and
\* rotation, and holds the value written on the edited axis.
C2_PoseEditRederivesMatrix ==
    [][ (\/ Completes("setPositionComponent", "updateFromPositionRotation")
         \/ Completes("setRotationComponent", "updateFromPositionRotation"))
        => /\ cameraState'.transformMatrix
                 = Compose(cameraState'.position, cameraState'.rotation)
           /\ last.op = "setPositionComponent"
                 => cameraState'.transformMatrix[last.arg[1]][4] = last.arg[2] ]_vars

\* C3: when an edit of a transform-matrix cell has run together with its
\* timer, the position is the translation column of the updated matrix; an
\* edit of cell (r, 3) makes position[r] the value written.
C3_MatrixEditRederivesPosition ==
    [][ Completes("setMatrixCell", "updateFromMatrix")
        => /\ cameraState'.position = Translation(cameraState'.transformMatrix)
           /\ (last.arg[2] = 4 /\ last.arg[1] \in Axes)
                 => cameraState'.position[last.arg[1]] = last.arg[3] ]_vars

\* C4: when an edit of a transform-matrix cell has run together with its
\* timer and the rotation block of the updated matrix is a rotation, the
\* rotation stored is a rotation of that block: not (0,0,0) when the block
\* is not the identity, and the rotation held before when the edit left the
\* block as it was.
C4_MatrixEditRederivesRotation ==
    [][ (/\ Completes("setMatrixCell", "updateFromMatrix")
         /\ IsRotation(cameraState'.transformMatrix))
        => /\ RotationBlock(MakeRotationFromEuler(cameraState'.rotation))
                 = RotationBlock(cameraState'.transformMatrix)
           /\ RotationBlock(cameraState'.transformMatrix) # RotationBlock(IDENTITY_MATRIX)
                 => cameraState'.rotation # <<0, 0, 0>>
           /\ (/\ last.arg[2] = 4
               /\ Agrees(cameraState'.transformMatrix,
                         Translation(cameraState'.transformMatrix), cameraState.rotation))
                 => cameraState'.rotation = cameraState.rotation ]_vars

\* C5: while animating, the handlers of the position fields, the rotation
\* fields and the transform-matrix cells leave position, rotation and
\* transform matrix as they are.
SamePose(s, t) ==
    /\ s.position = t.position
    /\ s.rotation = t.rotation
    /\ s.transformMatrix = t.transformMatrix

C5_EditsRejectedWhileAnimating ==
    cameraState.isAnimating =>
        /\ \A in \in PositionInputs :
              SamePose(PositionOnChange(cameraState, cameraState, in[1], in[2]), cameraState)
        /\ \A in \in RotationInputs :
              SamePose(RotationOnChange(cameraState, cameraState, in[1], in[2]), cameraState)
        /\ \A in \in TransformInputs :
              SamePose(TransformOnChange(cameraState, cameraState, in[1], in[2], in[3]),
                       cameraState)

C7_ResetAtomic ==
    (last.op = "resetCamera" /\ Len(timers) = 1) =>
        cameraState.transformMatrix
            = Compose(cameraState.initialPosition, cameraState.initialRotation)

C9_BoundaryReset ==
    [][ (/\ last'.op = "useFrame"
         /\ cameraState.isAnimating
         /\ Outside(Translation(Multiply(cameraState.transformMatrix,
                                         cameraState.movementMatrix)),
                    cameraState.boundaries))
        => /\ cameraState'.position = cameraState.initialPosition
           /\ cameraState'.rotation = cameraState.initialRotation
           /\ cameraState'.transformMatrix = cameraState.transformMatrix ]_vars

\* A frame has just reset a camera whose matrix had moved off the initial
\* pose.
C9_Witness ==
    /\ last = [op |-> "useFrame", arg |-> <<"reset">>]
    /\ cameraState.position = cameraState.initialPosition
    /\ Translation(cameraState.transformMatrix) # cameraState.initialPosition

\* C10: the frame that follows a boundary reset takes its candidate from the
\* initial pose: when compose(initialPosition, initialRotation) x
\* movementMatrix lies inside the boundaries, that frame commits it.
C10_ContinuesFromResetPose ==
    (/\ last = [op |-> "useFrame", arg |-> <<"reset">>]
     /\ cameraState.isAnimating)
    => LET candidate == Multiply(Compose(cameraState.initialPosition,
                                         cameraState.initialRotation),
                                 cameraState.movementMatrix)
           next == useFrame(cameraState, cameraState)
       IN ~Outside(Translation(candidate), cameraState.boundaries)
             => /\ next.position = Translation(candidate)
                /\ next.transformMatrix = candidate

\* A frame runs on an animating camera whose candidate lies inside the box.
CommitsFrame ==
    /\ last'.op = "useFrame"
    /\ cameraState.isAnimating
    /\ ~Outside(Translation(Multiply(cameraState.transformMatrix,
                                      cameraState.movementMatrix)),
                cameraState.boundaries)

\* C11: a frame taken while animating whose candidate lies inside the
\* boundaries sets the transform matrix to transformMatrix x movementMatrix
\* (the movement on the right), the position to the translation column of
\* that product and the rotation to a rotation of its block.
C11_AnimationCommit ==
    [][ CommitsFrame
        => LET next == Multiply(cameraState.transformMatrix, cameraState.movementMatrix)
           IN /\ cameraState'.transformMatrix = next
              /\ cameraState'.position = <<next[1][4], next[2][4], next[3][4]>>
              /\ RotationBlock(MakeRotationFromEuler(cameraState'.rotation))
                    = RotationBlock(next) ]_vars

\* A frame has committed on a camera turned a quarter about Y with a
\* movement of 4.0 along X: from (1, 2, 6) the camera went along its own X
\* axis to (1, 2, 2), not along the world's to (5, 2, 6).
C11_Witness ==
    /\ last = [op |-> "useFrame", arg |-> <<"commit">>]
    /\ cameraState.rotation = <<0, 1, 0>>
    /\ Translation(cameraState.movementMatrix) = <<400, 0, 0>>
    /\ cameraState.position = <<100, 200, 200>>

\* The camera stands at the origin unturned and the movement is the
\* forward preset.
AtOriginMovingForward ==
    /\ cameraState.transformMatrix = IDENTITY_MATRIX
    /\ cameraState.movementMatrix = FindPreset("forward").matrix
    /\ cameraState.isAnimating

\* C12: with transformMatrix = Identity, movementMatrix = the forward preset
\* and isAnimating, whatever the boundaries and the initial pose, one frame
\* produces position (0, 0, -0.02) and rotation (0, 0, 0).
C12_ForwardStepAnyBoundaries ==
    [][ (AtOriginMovingForward /\ last'.op = "useFrame")
        => /\ cameraState'.position = <<0, 0, -2>>
           /\ cameraState'.rotation = <<0, 0, 0>> ]_vars

\* C12 as amended: the same, in the states whose boundaries contain
\* (0, 0, -0.02).
C12_ForwardStepInsideBoundaries ==
    [][ (/\ AtOriginMovingForward
         /\ last'.op = "useFrame"
         /\ ~Outside(<<0, 0, -2>>, cameraState.boundaries))
        => /\ cameraState'.position = <<0, 0, -2>>
           /\ cameraState'.rotation = <<0, 0, 0>> ]_vars

\* The first frame from the origin has committed the forward step.
C12_Witness ==
    /\ last = [op |-> "useFrame", arg |-> <<"commit">>]
    /\ cameraState.transformMatrix = FindPreset("forward").matrix
    /\ cameraState.position = <<0, 0, -2>>
    /\ cameraState.rotation = <<0, 0, 0>>

\* C13: no frame steps the animation while the timer of an edit of a
\* position field, a rotation field or a transform-matrix cell is pending,
\* that is between the write of the value and the re-derivation.
C13_EditCompletesBeforeFrame ==
    (last.op = "useFrame" /\ last.arg # <<"idle">>)
    => \A k \in DOMAIN timers :
          timers[k].kind \notin {"updateFromPositionRotation", "updateFromMatrix"}

\* The ids of a selection, and the selections that hold the same ids in
\* some order (each is what ticking the ids in that order leaves).
Range(list) == {list[k] : k \in DOMAIN list}

Orderings(list) ==
    {other \in [DOMAIN list -> Range(list)] : Range(other) = Range(list)}

\* Combine has just run on a selection that is not empty.
Combined ==
    /\ last.op = "combineSelectedPresets"
    /\ last.arg[1] # << >>

\* The category ranks along a selection never go down.
RankOf(id) ==
    LET category == FindPreset(id).category
    IN IF category = "translation" THEN 0 ELSE IF category = "rotation" THEN 1 ELSE 2

InRankOrder(list) ==
    \A k \in DOMAIN list : \A l \in DOMAIN list : k < l => RankOf(list[k]) <= RankOf(list[l])

\* Identity x P1 x ... x Pn, the first n presets of a list.
RECURSIVE FirstLeftmost(_, _)
FirstLeftmost(list, n) ==
    IF n = 0 THEN IDENTITY_MATRIX
    ELSE Multiply(FirstLeftmost(list, n - 1), FindPreset(list[n]).matrix)

\* Pn x ... x P1 x Identity.
RECURSIVE LastLeftmost(_, _)
LastLeftmost(list, n) ==
    IF n = 0 THEN IDENTITY_MATRIX
    ELSE Multiply(FindPreset(list[n]).matrix, LastLeftmost(list, n - 1))

\* C14: the movement matrix Combine has written is the one Combine writes
\* for every selection that holds the same ids in another order.
C14_SelectionOrderIrrelevant ==
    Combined =>
        \A other \in Orderings(last.arg[1]) :
            combineSelectedPresets(cameraState, other).movementMatrix
                = cameraState.movementMatrix

\* C15: the movement matrix Combine has written for a selection that is not
\* empty is Identity x P1 x ... x Pn for an arrangement P1..Pn of the
\* selected presets in which every translation stands left of every
\* rotation and every rotation left of the complex preset.
C15_FoldInCategoryOrder ==
    Combined =>
        \E sorted \in Orderings(last.arg[1]) :
            /\ InRankOrder(sorted)
            /\ cameraState.movementMatrix = FirstLeftmost(sorted, Len(sorted))

\* Combine has run on a translation, a rotation and the complex preset
\* ticked against the category order.
C15_Witness ==
    /\ Combined
    /\ Len(last.arg[1]) = 3
    /\ RankOf(last.arg[1][1]) = 2
    /\ RankOf(last.arg[1][2]) = 1
    /\ RankOf(last.arg[1][3]) = 0
    /\ cameraState.movementMatrix # IDENTITY_MATRIX

\* C16: the movement matrix Combine has written is Pn x ... x P1 x Identity
\* for the presets P1..Pn in category order, the last one leftmost.
C16_LastSortedLeftmost ==
    Combined =>
        \E sorted \in Orderings(last.arg[1]) :
            /\ InRankOrder(sorted)
            /\ cameraState.movementMatrix = LastLeftmost(sorted, Len(sorted))

\* The selection by category: the translations as ticked, then the
\* rotations, then the complex preset.
ByCategory(list) ==
    LET ranked(r) == SelectSeq(list, LAMBDA id : RankOf(id) = r)
    IN ranked(0) \o ranked(1) \o ranked(2)

\* P1 x (P2 x ... (Pn x Identity)), from the n-th preset of a list on.
RECURSIVE FromLeft(_, _)
FromLeft(list, n) ==
    IF n > Len(list) THEN IDENTITY_MATRIX
    ELSE Multiply(FindPreset(list[n]).matrix, FromLeft(list, n + 1))

\* C16 as amended: the movement matrix Combine has written is
\* P1 x ... x Pn, the first preset in category order leftmost and the last
\* rightmost.
C16_FirstSortedLeftmost ==
    Combined =>
        cameraState.movementMatrix = FromLeft(ByCategory(last.arg[1]), 1)

\* Combine has run on a translation with a rotation or the complex preset,
\* and the product the other way round is another matrix.
C16_Witness ==
    /\ Combined
    /\ \E k, l \in DOMAIN last.arg[1] :
           RankOf(last.arg[1][k]) = 0 /\ RankOf(last.arg[1][l]) > 0
    /\ LET sorted == ByCategory(last.arg[1])
       IN cameraState.movementMatrix # LastLeftmost(sorted, Len(sorted))

\* C17: Combine on the empty selection leaves the identity as movement
\* matrix, whatever the movement matrix was.
C17_EmptySelectionGivesIdentity ==
    (last.op = "combineSelectedPresets" /\ last.arg[1] = << >>)
    => cameraState.movementMatrix = IDENTITY_MATRIX

\* Combine has run on the empty selection over a movement matrix with a
\* cell typed in.
C17_Witness ==
    /\ last.op = "combineSelectedPresets"
    /\ last.arg[1] = << >>
    /\ last.arg[2][1][4] = 400
    /\ cameraState.movementMatrix = IDENTITY_MATRIX

\* The sum of the translation columns of the presets of a list.
RECURSIVE SumOfTranslations(_)
SumOfTranslations(list) ==
    IF list = << >> THEN <<0, 0, 0>>
    ELSE LET t == FindPreset(Head(list)).matrix
             rest == SumOfTranslations(Tail(list))
         IN <<t[1][4] + rest[1], t[2][4] + rest[2], t[3][4] + rest[3]>>

\* C18: the movement matrix Combine has written for a selection of
\* translation presets only is a pure translation: identity block, bottom
\* row 0 0 0 1, and as translation column the sum of the translation
\* columns of the selected presets.
C18_TranslationsAdd ==
    (Combined /\ \A k \in DOMAIN last.arg[1] : RankOf(last.arg[1][k]) = 0)
    => LET sum == SumOfTranslations(last.arg[1])
       IN cameraState.movementMatrix = << <<1, 0, 0, sum[1]>>,
                                          <<0, 1, 0, sum[2]>>,
                                          <<0, 0, 1, sum[3]>>,
                                          <<0, 0, 0, 1>> >>

\* Combine has run on forward and up: translation (0, 0.02, -0.02).
C18_Witness ==
    /\ Combined
    /\ Range(last.arg[1]) = {"forward", "up"}
    /\ cameraState.movementMatrix = << <<1, 0, 0, 0>>,
                                       <<0, 1, 0, 2>>,
                                       <<0, 0, 1, -2>>,
                                       <<0, 0, 0, 1>> >>

\* C19: the selection never holds two presets one of which lists the other
\* in its conflictsWith.
C19_NoConflictingPair ==
    \A a \in Range(selectedPresets) : \A b \in Range(selectedPresets) :
        b \notin FindPreset(a).conflictsWith

\* backward has just been ticked in a selection that held forward and
\* another preset.
C19_Witness ==
    /\ last.op = "togglePreset"
    /\ last.arg[1] = "backward"
    /\ Includes(last.arg[2], "forward")
    /\ Len(last.arg[2]) >= 2
    /\ Includes(selectedPresets, "backward")

\* C20: ticking X in a selection S that holds X leaves S without X; in one
\* that does not hold X it leaves S without the ids of X.conflictsWith and
\* with X; every id is held once.
C20_ToggleSemantics ==
    last.op = "togglePreset"
    => LET X == last.arg[1]
           S == Range(last.arg[2])
       IN /\ Range(selectedPresets)
                = IF X \in S THEN S \ {X}
                  ELSE (S \ FindPreset(X).conflictsWith) \cup {X}
          /\ Cardinality(Range(selectedPresets)) = Len(selectedPresets)

\* forward then backward from the empty selection: backward alone.
C20_Witness ==
    /\ last = [op |-> "togglePreset", arg |-> <<"backward", <<"forward">> >>]
    /\ ops = 2
    /\ selectedPresets = <<"backward">>

\* A selection with one more id put in at place k + 1.
InsertAt(list, k, id) == SubSeq(list, 1, k) \o <<id>> \o SubSeq(list, k + 1, Len(list))

\* C21: togglePreset called with an id the catalog does not have leaves the
\* selection as it was, and the matrix Combine writes for a selection is the
\* matrix it writes for that selection with such an id put in at any place.
C21_UnknownIdsDropped ==
    [][/\ (last'.op = "togglePreset" /\ ~HasPreset(last'.arg[1]))
             => selectedPresets' = selectedPresets
       /\ last'.op = "combineSelectedPresets"
             => \A k \in 0..Len(selectedPresets) :
                   combineSelectedPresets(cameraState,
                                          InsertAt(selectedPresets, k, "roll-left")).movementMatrix
                       = cameraState'.movementMatrix]_vars

\* togglePreset has just been called with roll-left on a selection of a
\* rotation and a translation.
C21_Witness ==
    /\ last.op = "togglePreset"
    /\ last.arg[1] = "roll-left"
    /\ Range(last.arg[2]) = {"yaw-left", "forward"}
    /\ selectedPresets = last.arg[2]

\* C22: Clear selection makes the movement matrix the identity and the
\* selection empty, and leaves the position, the rotation, the transform
\* matrix, the initial pose, the boundaries and isAnimating as they were.
C22_ClearMovement ==
    [][last'.op = "clearSelection"
         => /\ cameraState'.movementMatrix = IDENTITY_MATRIX
            /\ selectedPresets' = << >>
            /\ cameraState'.position = cameraState.position
            /\ cameraState'.rotation = cameraState.rotation
            /\ cameraState'.transformMatrix = cameraState.transformMatrix
            /\ cameraState'.initialPosition = cameraState.initialPosition
            /\ cameraState'.initialRotation = cameraState.initialRotation
            /\ cameraState'.boundaries = cameraState.boundaries
            /\ cameraState'.isAnimating = cameraState.isAnimating]_vars

\* Clear selection has just emptied a selection and replaced a movement
\* matrix that was not the identity, while the animation runs.
C22_Witness ==
    /\ last.op = "clearSelection"
    /\ last.arg[1] # << >>
    /\ last.arg[2] # IDENTITY_MATRIX
    /\ cameraState.isAnimating
    /\ cameraState.movementMatrix = IDENTITY_MATRIX
    /\ selectedPresets = << >>

\* C23: the movement matrix changes only in Combine, in Clear selection and
\* in an edit of one of its cells; the edits of pose and transform, Set
\* initial, Reset, the animation switch, the checkboxes and the frames of the
\* animation leave it as it was.
C23_MovementMatrixWriters ==
    [][cameraState'.movementMatrix # cameraState.movementMatrix
         => last'.op \in {"combineSelectedPresets", "clearSelection",
                          "setMovementMatrixCell"}]_vars

\* A frame of the animation has just committed a step of a movement matrix
\* that is not the identity.
C23_Witness ==
    /\ last.op = "useFrame"
    /\ last.arg[1] = "commit"
    /\ cameraState.movementMatrix # IDENTITY_MATRIX

\* C28: isAnimating changes only in the animation switch, which negates it,
\* and in Reset, which makes it false; every other operation, the frames of
\* the animation and their boundary reset included, leaves it as it was.
C28_AnimatingWriters ==
    [][/\ cameraState'.isAnimating # cameraState.isAnimating
             => last'.op \in {"toggleAnimation", "resetCamera"}
       /\ last'.op = "toggleAnimation"
             => cameraState'.isAnimating = ~cameraState.isAnimating
       /\ last'.op = "resetCamera" => ~cameraState'.isAnimating]_vars

\* A frame has just put the camera back at the initial pose and the
\* animation is still running.
C28_Witness ==
    /\ last.op = "useFrame"
    /\ last.arg[1] = "reset"
    /\ cameraState.isAnimating

\* C25: an edit of a cell of the movement matrix or of a boundary, made
\* while the animation runs or not, writes the addressed number and leaves
\* every other field as it was, and the frame that comes next steps by the
\* edited movement matrix and tests against the edited boundaries.
C25_EditsWhileAnimating ==
    [][/\ last'.op = "setMovementMatrixCell"
             => cameraState' = [cameraState EXCEPT
                    !.movementMatrix[last'.arg[1]][last'.arg[2]] = last'.arg[3]]
       /\ last'.op = "setBoundary"
             => cameraState' = [cameraState EXCEPT
                    !.boundaries[last'.arg[1]][last'.arg[2]] = last'.arg[3]]
       /\ ( /\ last.op \in {"setMovementMatrixCell", "setBoundary"}
            /\ last'.op = "useFrame"
            /\ cameraState.isAnimating )
             => LET candidate == Multiply(cameraState.transformMatrix,
                                          cameraState.movementMatrix)
                IN IF Outside(Translation(candidate), cameraState.boundaries)
                   THEN /\ cameraState'.position = cameraState.initialPosition
                        /\ cameraState'.transformMatrix = cameraState.transformMatrix
                   ELSE /\ cameraState'.position = Translation(candidate)
                        /\ cameraState'.transformMatrix = candidate]_vars

\* A boundary has just been edited while the animation runs, and the step
\* the next frame would have committed now falls outside the box.
C25_Witness ==
    /\ last.op = "setBoundary"
    /\ cameraState.isAnimating
    /\ cameraState.movementMatrix # IDENTITY_MATRIX
    /\ LET candidate == Multiply(cameraState.transformMatrix, cameraState.movementMatrix)
       IN /\ Outside(Translation(candidate), cameraState.boundaries)
          /\ ~Outside(Translation(candidate), InitialCameraState.boundaries)

\* C26: Set Initial stores the position as initial position and the
\* rotation as initial rotation and changes nothing else, in every state, and
\* a Reset that comes straight after it leaves position and rotation as they
\* were.
C26_SetInitialPose ==
    [][/\ last'.op = "setInitialPosition"
             => cameraState' = [cameraState EXCEPT
                                   !.initialPosition = cameraState.position,
                                   !.initialRotation = cameraState.rotation]
       /\ (last.op = "setInitialPosition" /\ last'.op = "resetCamera")
             => /\ cameraState'.position = cameraState.position
                /\ cameraState'.rotation = cameraState.rotation]_vars

\* Reset has just followed Set Initial with the camera away from the pose
\* it started in, and it is still there.
C26_Witness ==
    /\ last = [op |-> "resetCamera", arg |-> <<"setInitialPosition">>]
    /\ cameraState.position # InitialCameraState.position
    /\ cameraState.rotation # InitialCameraState.rotation
    /\ cameraState.initialPosition = cameraState.position
    /\ cameraState.initialRotation = cameraState.rotation

\* C29: a frame that finds the animation switched off changes no field,
\* whatever the movement matrix and the boundaries are, also with the
\* position outside the boundaries.
C29_IdleFrame ==
    [][(last'.op = "useFrame" /\ ~cameraState.isAnimating)
         => cameraState' = cameraState]_vars

\* A frame has just run with the animation off, the position outside the
\* boundaries and a movement matrix that is not the identity.
C29_Witness ==
    /\ last.op = "useFrame"
    /\ last.arg[1] = "idle"
    /\ ~cameraState.isAnimating
    /\ Outside(cameraState.position, cameraState.boundaries)
    /\ cameraState.movementMatrix # IDENTITY_MATRIX

\* C24: the result matrix the calculation panel shows for a selection that
\* is not empty is the movement matrix Combine stores for that selection.
C24_DisplayIsCommitted ==
    Combined => cameraState.movementMatrix = MatrixCalculationDisplay(last.arg[1])

\* Combine has just stored the matrix of a complex preset, a translation and
\* a rotation ticked in that order.
C24_Witness ==
    /\ Combined
    /\ last.arg[1] = <<"spiral-up", "forward", "yaw-left">>
    /\ cameraState.movementMatrix = MatrixCalculationDisplay(last.arg[1])

\* A box with the lower edge above the upper edge on some axis.
Degenerate(boundaries) == \E i \in Axes : boundaries.min[i] > boundaries.max[i]

\* C30: with the lower edge of the box above the upper edge on some axis
\* every frame of the animation resets and commits nothing; with the two
\* edges equal on an axis a candidate that sits on them on that axis, and
\* within the box on the others, is committed.
C30_DegenerateBox ==
    [][(last'.op = "useFrame" /\ cameraState.isAnimating)
         => LET candidate == Multiply(cameraState.transformMatrix,
                                      cameraState.movementMatrix)
                p == Translation(candidate)
                b == cameraState.boundaries
            IN /\ Degenerate(b)
                     => /\ last'.arg[1] = "reset"
                        /\ cameraState'.transformMatrix = cameraState.transformMatrix
                        /\ cameraState'.position = cameraState.initialPosition
                        /\ cameraState'.rotation = cameraState.initialRotation
               /\ ( /\ \E i \in Axes : b.min[i] = b.max[i] /\ p[i] = b.min[i]
                    /\ \A j \in Axes : b.min[j] <= p[j] /\ p[j] <= b.max[j] )
                     => /\ last'.arg[1] = "commit"
                        /\ cameraState'.transformMatrix = candidate
                        /\ cameraState'.position = p]_vars

\* A frame of the animation has just reset in a box whose lower edge is
\* above its upper edge, from a candidate between the two edges.
C30_Witness ==
    /\ last = [op |-> "useFrame", arg |-> <<"reset">>]
    /\ cameraState.isAnimating
    /\ Degenerate(cameraState.boundaries)
    /\ LET p == Translation(Multiply(cameraState.transformMatrix,
                                     cameraState.movementMatrix))
       IN \A i \in Axes : cameraState.boundaries.min[i] > cameraState.boundaries.max[i]
                              => /\ p[i] < cameraState.boundaries.min[i]
                                 /\ p[i] > cameraState.boundaries.max[i]

\* C27: when the text committed in a field, on blur or on Enter, has no
\* number in it, onChange is not called, no field of cameraState changes and
\* the text of the field becomes that of the value it had.
C27_ParseFailure ==
    [][(last'.op \in {"onBlur", "onKeyDown"} /\ IsNaN(ParseFloat(numberInput.localValue)))
         => /\ last'.arg[2] = << >>
            /\ cameraState' = cameraState
            /\ numberInput'.localValue = ToFixed(ValueOf(cameraState), 1)]_vars

\* Enter has just been pressed on a text without a number, after 4.5 had
\* been committed; the field shows 4.5 again.
C27_Witness ==
    /\ last = [op |-> "onKeyDown", arg |-> << <<"a", "b", "c">>, << >> >>]
    /\ ValueOf(cameraState) = 450
    /\ numberInput.localValue = <<"4", ".", "5">>

\* C31: the box is closed.  A frame of the animation whose candidate lies
\* between the lower and the upper edge on every axis, the edges themselves
\* included, commits it; a frame resets only on a candidate strictly below a
\* lower edge or strictly above an upper edge.
C31_ClosedBox ==
    [][(last'.op = "useFrame" /\ cameraState.isAnimating)
         => LET candidate == Multiply(cameraState.transformMatrix,
                                      cameraState.movementMatrix)
                p == Translation(candidate)
                b == cameraState.boundaries
            IN /\ (\A i \in Axes : b.min[i] <= p[i] /\ p[i] <= b.max[i])
                     => /\ last'.arg[1] = "commit"
                        /\ cameraState'.position = p
                        /\ cameraState'.transformMatrix = candidate
               /\ last'.arg[1] = "reset"
                     => \E i \in Axes : p[i] < b.min[i] \/ p[i] > b.max[i]]_vars

\* A frame has just committed a position that sits on the upper edge of an
\* axis along which the box has room.
C31_Witness ==
    /\ last = [op |-> "useFrame", arg |-> <<"commit">>]
    /\ cameraState.isAnimating
    /\ cameraState.position = Translation(cameraState.transformMatrix)
    /\ \E i \in Axes :
          /\ cameraState.boundaries.min[i] < cameraState.boundaries.max[i]
          /\ cameraState.position[i] = cameraState.boundaries.max[i]

\* C32: straight after a frame of the running animation the position lies
\* within the boundaries of that frame on all three axes or is the initial
\* position.
C32_ContainedAfterStep ==
    [][(last'.op = "useFrame" /\ cameraState.isAnimating)
         => \/ ~Outside(cameraState'.position, cameraState.boundaries)
            \/ cameraState'.position = cameraState'.initialPosition]_vars

\* A frame has just put the camera back at an initial position that lies
\* outside the boundaries.
C32_Witness ==
    /\ last = [op |-> "useFrame", arg |-> <<"reset">>]
    /\ cameraState.isAnimating
    /\ cameraState.position = cameraState.initialPosition
    /\ Outside(cameraState.position, cameraState.boundaries)

\* A matrix that moves by an offset other than zero and turns nothing.
PureTranslation(m) ==
    /\ RotationBlock(m) = RotationBlock(IDENTITY_MATRIX)
    /\ m[4] = <<0, 0, 0, 1>>
    /\ Translation(m) # <<0, 0, 0>>

\* C33: with frames that keep coming, from a pose that agrees with the
\* transform matrix and lies inside a box whose lower edges are not above the
\* upper ones, and a movement matrix that is a translation by an offset other
\* than zero, the animation, unless it is switched off, comes to a frame that
\* finds its candidate out of bounds and puts the position back at the
\* initial position.
C33_EventualBoundaryEvent ==
    ( /\ cameraState.isAnimating
      /\ Agrees(cameraState.transformMatrix, cameraState.position, cameraState.rotation)
      /\ ~Outside(cameraState.position, cameraState.boundaries)
      /\ ~Degenerate(cameraState.boundaries)
      /\ PureTranslation(cameraState.movementMatrix) )
    ~> ( \/ ~cameraState.isAnimating
         \/ /\ last = [op |-> "useFrame", arg |-> <<"reset">>]
            /\ cameraState.position = cameraState.initialPosition )

\* The animation has walked from the default place up to the upper edge of
\* the height and the frame after it has reset.
C33_Witness ==
    /\ last = [op |-> "useFrame", arg |-> <<"reset">>]
    /\ cameraState.isAnimating
    /\ ~Degenerate(cameraState.boundaries)
    /\ PureTranslation(cameraState.movementMatrix)
    /\ cameraState.position = cameraState.initialPosition
    /\ Translation(cameraState.transformMatrix)[2] = cameraState.boundaries.max[2]
    /\ cameraState.boundaries.max[2] > cameraState.initialPosition[2]

====
